---- MODULE Spec2Model ----
(***************************************************************************)
(* Model of resume_manager_adk/app/main.py: the three tool functions       *)
(* (extract_resume_details, store_in_neo4j, query_neo4j), the workflow     *)
(* run_resume_manager, and the property graph the two Cypher statements    *)
(* act on.                                                                 *)
(*                                                                         *)
(* A Python dict is a TLA+ record (a function on its keys), so that        *)
(* `"error" in data` is  "error" \in DOMAIN data  and data["name"] on a    *)
(* dict without that key is a KeyError.  Nodes and relationships have      *)
(* identity: the graph keeps them in sequences and a node's identity is    *)
(* its position (the graph has no deletion path).                          *)
(***************************************************************************)
EXTENDS Integers, Sequences, FiniteSets, TLC

VARIABLES
    graph,      \* the persisted graph: [candidates, skills, rels]
    sessions,   \* number of driver sessions currently open
    call,       \* the most recent tool call and its outcome
    pc,         \* position of run_resume_manager
    locals,     \* run_resume_manager's locals: file_path, query, extracted, stored
    output,     \* what run_resume_manager returned
    steps,      \* the agent steps the current run_resume_manager call has run
    tx          \* per concurrent writer: its store_in_neo4j call in progress

vars == <<graph, sessions, call, pc, locals, output, steps, tx>>

----------------------------------------------------------------------------
(* Bounds *)

MaxCandidates == 2      \* Candidate nodes the graph may hold
MaxSkillsLen == 1       \* length of a record's skills list

----------------------------------------------------------------------------
(* Values *)

None == [none |-> TRUE]

Names == {"John Doe", "Jane Smith"}
Contacts == {"john@example.com"}
SkillNames == {"Python", "Neo4j"}

RECURSIVE SeqsUpTo(_, _)
SeqsUpTo(S, n) ==
    IF n = 0 THEN {<<>>}
    ELSE LET shorter == SeqsUpTo(S, n - 1)
         IN  shorter \cup {Append(s, x) : s \in {t \in shorter : Len(t) = n - 1}, x \in S}

SkillLists == SeqsUpTo(SkillNames, MaxSkillsLen)

\* The record the placeholder extraction returns (lines 42-46).
ExtractedRecord ==
    [name |-> "John Doe", contact |-> "john@example.com",
     skills |-> <<"Python", "Neo4j", "AI">>]

FullRecords ==
    [name : Names, contact : Contacts, skills : SkillLists] \cup {ExtractedRecord}

\* Dicts that lack one of the keys the statement's parameters read.
PartialRecords ==
    { [contact |-> "john@example.com", skills |-> <<"Python">>],
      [name |-> "John Doe", skills |-> <<"Python">>],
      [name |-> "John Doe", contact |-> "john@example.com"] }

\* Dicts carrying an "error" key, alone or beside other fields.
ErrorRecords ==
    { [error |-> "cannot read file"],
      [error |-> "cannot read file", name |-> "John Doe",
       contact |-> "john@example.com", skills |-> <<"Python">>] }

Records == FullRecords \cup PartialRecords \cup ErrorRecords

FilePaths == {"path/to/resume.pdf"}

Questions ==
    {"Find candidates with Python skills", "Find candidates with Neo4j skills"}

\* dict.get(key): the value (boxed, so that it compares with None), or None
\* when the key is absent.
Get(d, k) == IF k \in DOMAIN d THEN [value |-> d[k]] ELSE None

----------------------------------------------------------------------------
(* Exceptions *)

\* Classes of the exceptions the calls can meet, each with its base classes.
Bases(type) ==
    CASE type = "KeyError" -> {"KeyError", "LookupError", "Exception"}
      [] type = "ServiceUnavailable" -> {"ServiceUnavailable", "DriverError", "Exception"}
      [] type = "ClientError" -> {"ClientError", "Neo4jError", "Exception"}
      [] type = "OSError" -> {"OSError", "IOError", "Exception"}
      [] OTHER -> {type, "Exception"}

\* str(e)
Str(e) == e.msg

KeyError(k) == [type |-> "KeyError", msg |-> "'" \o k \o "'"]

\* Where the driver can fail during a call, and what it raises there.
StoreFaults == {"none", "session", "run", "commit"}
QueryFaults == {"none", "session", "run", "read"}

FaultException(fault) ==
    CASE fault = "session" -> [type |-> "ServiceUnavailable", msg |-> "driver closed"]
      [] fault = "run" -> [type |-> "ClientError", msg |-> "statement failed"]
      [] fault = "commit" -> [type |-> "ServiceUnavailable", msg |-> "connection lost"]
      [] fault = "read" -> [type |-> "OSError", msg |-> "connection reset"]

\* The clause of line 72 had it named only the two classes its comment calls
\* expected.
StoreExceptClauseNarrow == {"IOError", "ValueError"}

\* except (IOError, ValueError, Exception) as e   (line 72)
StoreExceptClause == {"IOError", "ValueError", "Exception"}

\* except (IOError, ValueError, Exception) as e   (line 91)
QueryExceptClause == {"IOError", "ValueError", "Exception"}

Catches(clause, e) == Bases(e.type) \cap clause # {}

----------------------------------------------------------------------------
(* The graph and the write statement *)

EmptyGraph == [candidates |-> <<>>, skills |-> <<>>, rels |-> <<>>]

\* What a write transaction has created and not yet committed.  A pending
\* relationship's target is a committed Skill node (its position, > 0) or a
\* Skill node of this transaction (minus its position in pending skills).
EmptyTx == [candidates |-> <<>>, skills |-> <<>>, rels |-> <<>>]

\* CREATE (c:Candidate {name: $name, contact: $contact})
TxCreateCandidate(p, name, contact) ==
    [p EXCEPT !.candidates = Append(@, [name |-> name, contact |-> contact])]

\* MERGE written as CREATE: nothing ever matches.
MergeNeverMatches(g, p, skill) == {}

\* The Skill nodes MERGE (s:Skill {name: skill}) matches: committed ones and
\* the transaction's own.
MergeMatches(g, p, skill) ==
    {i \in 1..Len(g.skills) : g.skills[i].name = skill}
        \cup {-j : j \in {k \in 1..Len(p.skills) : p.skills[k].name = skill}}

RECURSIVE SetToSeq(_)
SetToSeq(S) ==
    IF S = {} THEN <<>>
    ELSE LET m == CHOOSE x \in S : \A y \in S : x >= y
         IN  Append(SetToSeq(S \ {m}), m)

\* One row of UNWIND $skills AS skill:
\*   MERGE (s:Skill {name: skill})  CREATE (c)-[:HAS_SKILL]->(s)
\* MERGE binds s to every matching node, or creates one when none matches;
\* CREATE then adds one relationship per bound s.
TxMergeSkill(g, p, skill) ==
    LET matches == MergeMatches(g, p, skill)
    IN  IF matches = {}
        THEN [p EXCEPT !.skills = Append(@, [name |-> skill]),
                       !.rels = Append(@, -(Len(p.skills) + 1))]
        ELSE [p EXCEPT !.rels = @ \o SetToSeq(matches)]

RECURSIVE TxUnwind(_, _, _)
TxUnwind(g, p, skillList) ==
    IF skillList = <<>> THEN p
    ELSE TxUnwind(g, TxMergeSkill(g, p, Head(skillList)), Tail(skillList))

\* Commit: the transaction's nodes and relationships join the graph.
TxCommit(g, p) ==
    LET c == Len(g.candidates) + 1
        target(t) == IF t > 0 THEN t ELSE Len(g.skills) - t
    IN  [candidates |-> g.candidates \o p.candidates,
         skills |-> g.skills \o p.skills,
         rels |-> g.rels \o [k \in 1..Len(p.rels) |->
                                [from |-> c, to |-> target(p.rels[k])]]]

\* The whole statement of lines 64-68 run in one transaction against g.
WriteStatement(g, name, contact, skillList) ==
    TxCommit(g, TxUnwind(g, TxCreateCandidate(EmptyTx, name, contact), skillList))

----------------------------------------------------------------------------
(* extract_resume_details *)

\* Lines 40-48: the try block only builds a literal, so the except branch
\* is never taken and every file path yields the same record.
extract_resume_details(file_path) == ExtractedRecord

----------------------------------------------------------------------------
(* store_in_neo4j *)

\* with driver.session() as session:  entering acquires a session ...
SessionEnter(open) == open + 1

\* A session closed by hand at the end of the block instead of by `with`:
\* an exception skips the close.
SessionExitOnSuccessOnly(open, raisedInBlock) ==
    IF raisedInBlock THEN open ELSE open - 1

\* ... and leaving releases it, whether the block raised or not.
SessionExit(open, raisedInBlock) == open - 1

\* The keys the statement's parameters read, in evaluation order (line 68).
ParamKeys == <<"name", "contact", "skills">>

MissingKeys(data) == {i \in 1..Len(ParamKeys) : ParamKeys[i] \notin DOMAIN data}

\* Lines 61-70, the body of the try block.  exc is None when the block ran
\* to its end, else the exception that left it.  A transaction that does
\* not commit is rolled back and leaves the graph as it was.
StoreBlock(data, fault, g, open) ==
    IF fault = "session"
    THEN [exc |-> FaultException(fault), graph |-> g, sessions |-> open,
          acquired |-> 0, txs |-> 0, committed |-> FALSE]
    ELSE LET missing == MissingKeys(data)
             exc == IF missing # {}
                    THEN KeyError(ParamKeys[CHOOSE i \in missing : \A j \in missing : i <= j])
                    ELSE IF fault = "none" THEN None ELSE FaultException(fault)
         IN  [exc |-> exc,
              graph |-> IF exc = None
                        THEN WriteStatement(g, data["name"], data["contact"], data["skills"])
                        ELSE g,
              sessions |-> SessionExit(SessionEnter(open), exc # None),
              acquired |-> 1, txs |-> 1, committed |-> (exc = None)]

\* store_in_neo4j without the check of line 58.
HasErrorIgnored(data) == FALSE

\* if "error" in data   (line 58)
HasError(data) == "error" \in DOMAIN data

\* Lines 53-73.
store_in_neo4j(data, fault, g, open) ==
    IF HasError(data)
    THEN [ret |-> [status |-> "failure", message |-> data["error"]], raised |-> FALSE,
          graph |-> g, sessions |-> open, acquired |-> 0, txs |-> 0, committed |-> FALSE]
    ELSE LET b == StoreBlock(data, fault, g, open)
             rest == [graph |-> b.graph, sessions |-> b.sessions, acquired |-> b.acquired,
                      txs |-> b.txs, committed |-> b.committed]
         IN  IF b.exc = None
             THEN [ret |-> [status |-> "success"], raised |-> FALSE] @@ rest
             ELSE IF Catches(StoreExceptClause, b.exc)
             THEN [ret |-> [status |-> "failure", message |-> Str(b.exc)],
                   raised |-> FALSE] @@ rest
             ELSE [ret |-> None, raised |-> TRUE] @@ rest

----------------------------------------------------------------------------
(* query_neo4j *)

\* The skill name written into the statement (line 87).
QuerySkill == "Python"

\* MATCH (c:Candidate)-[:HAS_SKILL]->(s:Skill {name: 'Python'}): one match
\* per relationship that ends in a Skill node of that name.
QueryMatches(g) == {k \in 1..Len(g.rels) : g.skills[g.rels[k].to].name = QuerySkill}

\* RETURN c.name AS name, c.contact AS contact, collect(s.name) AS skills:
\* the matches are grouped by the two non-aggregated values, and skills
\* collects s.name once per match of the group.  The order of the list is
\* the engine's and is not modelled: the rows are a set.
QueryRows(g) ==
    LET key(k) == <<g.candidates[g.rels[k].from].name, g.candidates[g.rels[k].from].contact>>
        matches == QueryMatches(g)
    IN  { [name |-> kk[1], contact |-> kk[2],
           skills |-> [i \in 1..Cardinality({k \in matches : key(k) = kk}) |-> QuerySkill]]
          : kk \in {key(k) : k \in matches} }

\* The statement of line 87 written with MERGE for the Skill pattern: it
\* creates the Skill node when the graph has none of that name.
ReadStatementMerging(g) ==
    [rows |-> QueryRows(g),
     graph |-> IF \E i \in 1..Len(g.skills) : g.skills[i].name = QuerySkill
               THEN g
               ELSE [g EXCEPT !.skills = Append(@, [name |-> QuerySkill])]]

\* session.run(...) of lines 86-89: the rows, and the graph after it.  The
\* statement has only MATCH and RETURN clauses.
ReadStatement(g) == [rows |-> QueryRows(g), graph |-> g]

\* An except branch that swallows the error and returns no rows.
QueryErrorSwallowed(e) == [type |-> "list", value |-> {}]

\* What the except branch returns (line 92).
QueryErrorValue(e) == [type |-> "dict", value |-> [error |-> Str(e)]]

\* Lines 78-92.  natural_query is not read by the body.
query_neo4j(natural_query, fault, g, open) ==
    IF fault = "session"
    THEN LET e == FaultException(fault)
         IN  [ret |-> IF Catches(QueryExceptClause, e) THEN QueryErrorValue(e) ELSE None,
              raised |-> ~Catches(QueryExceptClause, e),
              graph |-> g, sessions |-> open, acquired |-> 0]
    ELSE LET r == ReadStatement(g)
             exc == IF fault = "none" THEN None ELSE FaultException(fault)
             after == IF fault = "run" THEN g ELSE r.graph
             open2 == SessionExit(SessionEnter(open), exc # None)
         IN  IF exc = None
             THEN [ret |-> [type |-> "list", value |-> r.rows], raised |-> FALSE,
                   graph |-> after, sessions |-> open2, acquired |-> 1]
             ELSE [ret |-> IF Catches(QueryExceptClause, exc)
                           THEN QueryErrorValue(exc) ELSE None,
                   raised |-> ~Catches(QueryExceptClause, exc),
                   graph |-> after, sessions |-> open2, acquired |-> 1]

----------------------------------------------------------------------------
(* State *)

Writers == {1, 2}

IdleTx == [pc |-> "idle", data |-> None, next |-> 0, pend |-> EmptyTx, ret |-> None]

NoCall ==
    [op |-> "none", arg |-> None, fault |-> "none", ret |-> None, raised |-> FALSE,
     acquired |-> 0, txs |-> 0, committed |-> FALSE]

NoLocals == [file_path |-> None, query |-> None, extracted |-> None, stored |-> None]

Init ==
    /\ graph = EmptyGraph
    /\ sessions = 0
    /\ call = NoCall
    /\ pc = "idle"
    /\ locals = NoLocals
    /\ output = None
    /\ steps = <<>>
    /\ tx = [w \in Writers |-> IdleTx]

\* The store tool called with data; the driver fails at fault, or nowhere.
DoStore(data, fault) ==
    LET o == store_in_neo4j(data, fault, graph, sessions)
    IN  /\ graph' = o.graph
        /\ sessions' = o.sessions
        /\ call' = [op |-> "store", arg |-> data, fault |-> fault, ret |-> o.ret,
                    raised |-> o.raised, acquired |-> o.acquired, txs |-> o.txs,
                    committed |-> o.committed]

\* The query tool called with natural_query.
DoQuery(natural_query, fault) ==
    LET o == query_neo4j(natural_query, fault, graph, sessions)
    IN  /\ graph' = o.graph
        /\ sessions' = o.sessions
        /\ call' = [op |-> "query", arg |-> natural_query, fault |-> fault, ret |-> o.ret,
                    raised |-> o.raised, acquired |-> o.acquired, txs |-> 0,
                    committed |-> FALSE]

\* storage_tool invoked on its own (lines 108-117).
StoreCall ==
    /\ pc = "idle"
    /\ Len(graph.candidates) < MaxCandidates
    /\ \E data \in Records, fault \in StoreFaults : DoStore(data, fault)
    /\ UNCHANGED <<pc, locals, output, steps, tx>>

\* query_tool invoked on its own (lines 119-128).
QueryCall ==
    /\ pc = "idle"
    /\ \E q \in Questions, fault \in QueryFaults : DoQuery(q, fault)
    /\ UNCHANGED <<pc, locals, output, steps, tx>>

----------------------------------------------------------------------------
(* run_resume_manager: an agent's run is the call of the agent's one tool. *)

\* Line 180: the call.
RunStart ==
    /\ pc = "idle"
    /\ Len(graph.candidates) < MaxCandidates
    /\ \E f \in FilePaths, q \in Questions :
          locals' = [NoLocals EXCEPT !.file_path = f, !.query = q]
    /\ pc' = "extract"
    /\ output' = None
    /\ steps' = <<>>
    /\ UNCHANGED <<graph, sessions, call, tx>>

\* Line 189.
RunExtract ==
    /\ pc = "extract"
    /\ locals' = [locals EXCEPT !.extracted = extract_resume_details(locals.file_path)]
    /\ steps' = Append(steps, "extract")
    /\ pc' = "store"
    /\ UNCHANGED <<graph, sessions, call, output, tx>>

\* Line 191.  An exception leaving the tool leaves run_resume_manager too.
RunStore ==
    /\ pc = "store"
    /\ \E fault \in StoreFaults : DoStore(locals.extracted, fault)
    /\ steps' = Append(steps, "store")
    /\ locals' = [locals EXCEPT !.stored = call'.ret]
    /\ pc' = IF call'.raised THEN "raised" ELSE "branch"
    /\ UNCHANGED <<output, tx>>

\* The test of line 193 had it asked only whether a status came back.
StorageReturned(stored) == Get(stored, "status") # None

\* stored.get("status") == "success"   (line 193)
StorageSucceeded(stored) == Get(stored, "status") = [value |-> "success"]

\* Lines 193-195.
RunQuery ==
    /\ pc = "branch"
    /\ StorageSucceeded(locals.stored)
    /\ \E fault \in QueryFaults : DoQuery(locals.query, fault)
    /\ steps' = Append(steps, "query")
    /\ output' = call'.ret
    /\ pc' = IF call'.raised THEN "raised" ELSE "done"
    /\ UNCHANGED <<locals, tx>>

\* Line 196.
RunReturnStored ==
    /\ pc = "branch"
    /\ ~StorageSucceeded(locals.stored)
    /\ output' = locals.stored
    /\ pc' = "done"
    /\ UNCHANGED <<graph, sessions, call, locals, steps, tx>>

\* The caller has the result; the frame is gone.
RunEnd ==
    /\ pc = "done"
    /\ pc' = "idle"
    /\ locals' = NoLocals
    /\ output' = None
    /\ steps' = <<>>
    /\ UNCHANGED <<graph, sessions, call, tx>>

Next ==
    \/ StoreCall
    \/ QueryCall
    \/ RunStart
    \/ RunExtract
    \/ RunStore
    \/ RunQuery
    \/ RunReturnStored
    \/ RunEnd

Spec == Init /\ [][Next]_vars

----------------------------------------------------------------------------
(* Interleaved writers.  Each writer runs store_in_neo4j on a complete     *)
(* record; the transaction of lines 62-70 is taken one statement row at a  *)
(* time.  A transaction reads the committed graph and its own writes, and  *)
(* the graph has no uniqueness constraint: the module creates none.        *)

InFlight == {w \in Writers : tx[w].pc = "open"}

\* Lines 58-64: no "error" key, the session is acquired, the transaction
\* begins and CREATE makes the Candidate node.
CBegin(w) ==
    /\ pc = "idle"
    /\ tx[w].pc = "idle"
    /\ Len(graph.candidates) + Cardinality(InFlight) < MaxCandidates
    /\ \E data \in FullRecords :
          tx' = [tx EXCEPT ![w] =
                    [pc |-> "open", data |-> data, next |-> 1,
                     pend |-> TxCreateCandidate(EmptyTx, data["name"], data["contact"]),
                     ret |-> None]]
    /\ sessions' = SessionEnter(sessions)
    /\ UNCHANGED <<graph, call, pc, locals, output, steps>>

\* Lines 65-67: the next row of UNWIND $skills.
CMerge(w) ==
    /\ tx[w].pc = "open"
    /\ tx[w].next <= Len(tx[w].data["skills"])
    /\ tx' = [tx EXCEPT ![w].pend = TxMergeSkill(graph, @, tx[w].data["skills"][tx[w].next]),
                        ![w].next = @ + 1]
    /\ UNCHANGED <<graph, sessions, call, pc, locals, output, steps>>

\* Lines 70-71: the statement is done, the transaction commits, the session
\* is released and the call returns success.
CCommit(w) ==
    /\ tx[w].pc = "open"
    /\ tx[w].next > Len(tx[w].data["skills"])
    /\ graph' = TxCommit(graph, tx[w].pend)
    /\ sessions' = SessionExit(sessions, FALSE)
    /\ tx' = [tx EXCEPT ![w] = [@ EXCEPT !.pc = "idle", !.pend = EmptyTx,
                                         !.ret = [status |-> "success"]]]
    /\ UNCHANGED <<call, pc, locals, output, steps>>

\* Lines 72-73: the driver fails while the transaction is open; it is rolled
\* back, the session is released and the call returns failure.
CFail(w) ==
    /\ tx[w].pc = "open"
    /\ \E fault \in {"run", "commit"} :
          tx' = [tx EXCEPT ![w] =
                    [@ EXCEPT !.pc = "idle", !.pend = EmptyTx,
                              !.ret = [status |-> "failure",
                                       message |-> Str(FaultException(fault))]]]
    /\ sessions' = SessionExit(sessions, TRUE)
    /\ UNCHANGED <<graph, call, pc, locals, output, steps>>

NextConc ==
    \E w \in Writers :
        \/ CBegin(w)
        \/ CMerge(w)
        \/ CCommit(w)
        \/ CFail(w)

SpecConc == Init /\ [][NextConc]_vars

----------------------------------------------------------------------------
(* Properties *)

Range(f) == {f[i] : i \in DOMAIN f}

IsPrefix(s, t) == Len(s) <= Len(t) /\ \A i \in 1..Len(s) : s[i] = t[i]

\* The Skill nodes named s.
SkillNodes(g, s) == {i \in 1..Len(g.skills) : g.skills[i].name = s}

\* The record Candidate node c carries: its attributes and, in the order of
\* its relationships, the names of the Skill nodes it is linked to.
RecordOf(g, c) ==
    LET from_c(r) == r.from = c
        out == SelectSeq(g.rels, from_c)
    IN  [name |-> g.candidates[c].name, contact |-> g.candidates[c].contact,
         skills |-> [k \in 1..Len(out) |-> g.skills[out[k].to].name]]

\* The Candidate nodes with a HAS_SKILL relationship to a Skill node named s.
CandidatesWithSkill(g, s) ==
    {g.rels[k].from : k \in {l \in 1..Len(g.rels) : g.skills[g.rels[l].to].name = s}}

\* The skill a question asks for.
SkillAsked(q) ==
    CASE q = "Find candidates with Python skills" -> "Python"
      [] q = "Find candidates with Neo4j skills" -> "Neo4j"

Success == [status |-> "success"]

AllSteps == <<"extract", "store", "query">>

\* C1: after a successful write of a record the graph holds exactly one
\* Candidate node carrying that record, one Skill node per skill of the
\* record and no two HAS_SKILL relationships between the same two nodes;
\* so a second write of the same record adds nothing.
C1_WriteIsIdempotent ==
    (call.op = "store" /\ call.committed) =>
        /\ Cardinality({c \in 1..Len(graph.candidates) : RecordOf(graph, c) = call.arg}) = 1
        /\ \A s \in Range(call.arg["skills"]) : Cardinality(SkillNodes(graph, s)) = 1
        /\ \A k, l \in 1..Len(graph.rels) : graph.rels[k] = graph.rels[l] => k = l

\* C2: under sequential calls no two Skill nodes have the same name, and
\* after a committed write the new Candidate node is linked, for each skill
\* of its record, to the one Skill node of that name.
C2_SkillIdentityIsGlobal ==
    /\ \A i, j \in 1..Len(graph.skills) :
          graph.skills[i].name = graph.skills[j].name => i = j
    /\ (call.op = "store" /\ call.committed) =>
          \A s \in Range(call.arg["skills"]) :
              \E k \in 1..Len(graph.rels) :
                  /\ graph.rels[k].from = Len(graph.candidates)
                  /\ SkillNodes(graph, s) = {graph.rels[k].to}

\* Two Candidate nodes share one Skill node, the second write just done.
C2_Witness ==
    /\ call.op = "store" /\ call.committed
    /\ \E k, l \in 1..Len(graph.rels) :
          /\ graph.rels[k].to = graph.rels[l].to
          /\ graph.rels[k].from < graph.rels[l].from
          /\ graph.rels[l].from = Len(graph.candidates)

\* C3: when the interleaved writers have all returned, the graph holds at
\* most one Skill node per name.
C3_ConcurrentWritersShareSkillNodes ==
    (InFlight = {}) =>
        \A i, j \in 1..Len(graph.skills) :
            graph.skills[i].name = graph.skills[j].name => i = j

C5_QueryIsReadOnly ==
    [][ /\ (call'.op = "query" => graph' = graph)
        /\ (graph' # graph => call'.op = "store") ]_vars

\* A query that failed while reading rows, on a graph that has nodes.
C5_Witness ==
    /\ call.op = "query"
    /\ call.fault = "read"
    /\ Len(graph.rels) > 0

\* C6: a successful query returns the names of exactly the candidates linked
\* to the Skill node the question asks for.
C6_QueryReturnsAskedSkill ==
    (call.op = "query" /\ call.ret.type = "list") =>
        {r.name : r \in call.ret.value}
            = {graph.candidates[c].name :
                 c \in CandidatesWithSkill(graph, SkillAsked(call.arg))}

\* C7: the steps of a run are a prefix of extract, store, query; the query
\* step has run only if the store step returned success; a finished run
\* whose store step did not return success ran no query and returns the
\* store step's failure result; a finished run whose store step succeeded
\* ran the query and returns its result.
C7_WorkflowOrder ==
    /\ IsPrefix(steps, AllSteps)
    /\ ("query" \in Range(steps)) => locals.stored = Success
    /\ (pc = "done") =>
          IF locals.stored = Success
          THEN steps = AllSteps /\ output = call.ret /\ call.op = "query"
          ELSE /\ steps = <<"extract", "store">>
               /\ output = locals.stored
               /\ output.status = "failure"
               /\ "message" \in DOMAIN output

\* A run that ended on a failed store without a query.
C7_Witness ==
    /\ pc = "done"
    /\ locals.stored # Success
    /\ output = locals.stored
    /\ call.op = "store"

\* C8: between calls no session is open, and a call acquires at most one.
C8_SessionsReleased ==
    /\ sessions = 0
    /\ call.acquired \in {0, 1}

\* A call that acquired a session and then failed.
C8_Witness ==
    /\ call.op \in {"store", "query"}
    /\ call.acquired = 1
    /\ call.fault # "none"
    /\ sessions = 0

C10_ErrorRecordIsNotWritten ==
    [][ (call'.op = "store" /\ "error" \in DOMAIN call'.arg) =>
            /\ call'.ret = [status |-> "failure", message |-> call'.arg["error"]]
            /\ ~call'.raised
            /\ call'.acquired = 0
            /\ call'.txs = 0
            /\ ~call'.committed
            /\ graph' = graph
            /\ sessions' = sessions ]_vars

\* A store call given an error record that also carries every other field.
C10_Witness ==
    /\ call.op = "store"
    /\ {"error", "name", "contact", "skills"} \subseteq DOMAIN call.arg
    /\ call.ret.status = "failure"

====
